---- MODULE Spec2Model ----
(***************************************************************************)
(* A model of the free-list allocator of src/src/alloc.c: tumalloc,        *)
(* tucalloc, turealloc and tufree over one sbrk-grown heap, with the       *)
(* helpers split, find_prev, find_next, remove_free_block, coalesce and    *)
(* do_alloc.                                                               *)
(*                                                                         *)
(* Memory is an array of 8-byte words addressed by byte address.  Request  *)
(* sizes and the initial break are multiples of 8, so every header the     *)
(* code reads or writes lies on a word.  A free_block header is two words: *)
(* size at offset 0 and next at offset 8.  The sentinel is stored through  *)
(* an unsigned int pointer at offset 0 of the header, that is, over the    *)
(* low 32 bits of the size word.  All sizes of the model are below 2^31,   *)
(* so the high 32 bits of every size word are zero and the low 32 bits of  *)
(* a word are the word.                                                    *)
(*                                                                         *)
(* A size_t value v at or above 2^63 is written as the integer v - 2^64    *)
(* (two's complement): +, - and the conversions between size_t, int and    *)
(* intptr_t then agree with the code's arithmetic modulo 2^64, and the     *)
(* unsigned comparisons of the code are ULess.  The product of tucalloc is *)
(* computed on the eight bytes of its operands.                            *)
(***************************************************************************)
EXTENDS Integers, FiniteSets, Sequences, TLC

VARIABLES mem, HEAD, brk, brk0, status, live, freed, last, nops

vars == <<mem, HEAD, brk, brk0, status, live, freed, last, nops>>

----------------------------------------------------------------------------
(* Program constants *)

ALIGNMENT == 16

MAGIC == 19088743

HeaderSize == 16

WordSize == 8

NULL == 0

SBRK_FAILED == -1

----------------------------------------------------------------------------
(* Bounds of the model *)

\* The number of calls the caller makes.
MaxOps == 4

\* An initial program break that is a multiple of ALIGNMENT.
HeapBase == 256 * ALIGNMENT

\* The initial break: aligned, and misaligned by one word.
Breaks == {HeapBase, HeapBase + WordSize}

\* A request that a block of recorded size MAGIC fits (BigSize <= MAGIC) but
\* that leaves no room for a second header (MAGIC < BigSize + 2 * HeaderSize).
BigSize == MAGIC - 7

\* Request sizes of tumalloc and new sizes of turealloc.
Sizes == {16, 64, BigSize}

ReallocSizes == {8, 16, 64}

\* What the word below the first pointer handed out may hold: memory under
\* the initial break, which the allocator never wrote.
Garbage == {0, 40, MAGIC}

\* Requests near the top of size_t (SpecWrap): 2^64 - 16, for which
\* size + 2 * sizeof(free_block) wraps around to 16, and 2^64 - 64, for which
\* it is 2^64 - 32, the intptr_t -32.
WrapSize == 0 - ALIGNMENT

HugeSize == 0 - 4 * ALIGNMENT

WrapSizes == {16, WrapSize, HugeSize}

WrapReallocSizes == {8, HugeSize}

\* The sizes split is tried with on every block of a reachable heap.
SplitSizes == {0, 8, 16, 64, BigSize}

\* The blocks and the request sizes of the back-to-back layout (SpecAdjacent).
MaxBlocks == 4

SmallSizes == {16, 64}

----------------------------------------------------------------------------
(* Memory *)

Rd(m, a) == IF a \in DOMAIN m THEN m[a] ELSE 0

Wr(m, a, v) == [x \in (DOMAIN m) \cup {a} |-> IF x = a THEN v ELSE m[x]]

InHeap(a, lo, hi) == lo <= a /\ a + WordSize <= hi

\* a < b between two size_t values: a negative integer stands for a value at
\* or above 2^63, which is above every value written as a natural number.
ULess(a, b) == IF (a < 0) = (b < 0) THEN a < b ELSE a >= 0

----------------------------------------------------------------------------
(* The allocator's machine state while a call runs:                        *)
(*   mem, head, brk  memory, HEAD and the program break;                   *)
(*   lo              the initial break (the heap is [lo, brk));            *)
(*   oob             some access so far fell outside [lo, brk);            *)
(*   flt             "none", or how the call stopped: "abort" (abort()),   *)
(*                   "segv" (a store through NULL), "hang" (a scan that    *)
(*                   never reaches the end of the list).                   *)

Machine(m, h, b, lo) ==
    [mem |-> m, head |-> h, brk |-> b, lo |-> lo, oob |-> FALSE, flt |-> "none"]

Acc(M, addrs) ==
    [M EXCEPT !.oob = @ \/ (\E a \in addrs : ~InHeap(a, M.lo, M.brk)),
              !.flt = IF @ = "none" /\ (\E a \in addrs : a \in {NULL, NULL + WordSize})
                      THEN "segv" ELSE @]

Fault(M, f) == [M EXCEPT !.flt = IF @ = "none" THEN f ELSE @]

SizeOf(m, block) == Rd(m, block)

NextOf(m, block) == Rd(m, block + WordSize)

SetSize(M, block, v) ==
    [Acc(M, {block}) EXCEPT !.mem = Wr(M.mem, block, v)]

SetNext(M, block, v) ==
    [Acc(M, {block + WordSize}) EXCEPT !.mem = Wr(M.mem, block + WordSize, v)]

\* The unsigned int read at offset 0 of a header: the low 32 bits of its size word.
MagicOf(m, block) == Rd(m, block)

\* The unsigned int store of 0x01234567 at offset 0 of a header replaces the
\* low 32 bits of its size word; the high 32 bits are zero.
SetMagic(M, block) ==
    [Acc(M, {block}) EXCEPT !.mem = Wr(M.mem, block, MAGIC)]

----------------------------------------------------------------------------
(* split (alloc.c 20-34) *)

CopyNext(M, to, from) ==
    SetNext(Acc(M, {from + WordSize}), to, NextOf(M.mem, from))

\* split without the store of line 31.
split_unshrunk(M, block, size) ==
    IF ULess(SizeOf(M.mem, block), size + HeaderSize)
    THEN [M |-> Acc(M, {block}), ret |-> NULL]
    ELSE [M |-> CopyNext(
                  SetSize(Acc(M, {block}), block + size + HeaderSize,
                          SizeOf(M.mem, block) - size - HeaderSize),
                  block + size + HeaderSize, block),
          ret |-> block]

split(M, block, size) ==
    IF ULess(SizeOf(M.mem, block), size + HeaderSize)
    THEN [M |-> Acc(M, {block}), ret |-> NULL]
    ELSE [M |-> SetSize(
                  CopyNext(
                    SetSize(Acc(M, {block}), block + size + HeaderSize,
                            SizeOf(M.mem, block) - size - HeaderSize),
                    block + size + HeaderSize, block),
                  block, size),
          ret |-> block]

----------------------------------------------------------------------------
(* find_prev (alloc.c 42-51).  A scan that comes back to an entry it has   *)
(* already visited never ends: the list is unchanged while it runs.        *)

RECURSIVE find_prev_from(_, _, _, _)
find_prev_from(M, block, curr, seen) ==
    IF curr = NULL THEN [M |-> M, ret |-> NULL]
    ELSE IF curr \in seen THEN [M |-> Fault(M, "hang"), ret |-> NULL]
    ELSE IF curr + SizeOf(M.mem, curr) + HeaderSize = block
         THEN [M |-> Acc(M, {curr}), ret |-> curr]
         ELSE find_prev_from(Acc(M, {curr, curr + WordSize}), block,
                             NextOf(M.mem, curr), seen \cup {curr})

find_prev(M, block) == find_prev_from(M, block, M.head, {})

(* find_next (alloc.c 59-69) *)

RECURSIVE find_next_from(_, _, _, _)
find_next_from(M, block_end, curr, seen) ==
    IF curr = NULL THEN [M |-> M, ret |-> NULL]
    ELSE IF curr \in seen THEN [M |-> Fault(M, "hang"), ret |-> NULL]
    ELSE IF curr = block_end THEN [M |-> M, ret |-> curr]
    ELSE find_next_from(Acc(M, {curr + WordSize}), block_end,
                        NextOf(M.mem, curr), seen \cup {curr})

find_next(M, block) ==
    find_next_from(Acc(M, {block}), block + SizeOf(M.mem, block) + HeaderSize,
                   M.head, {})

(* remove_free_block (alloc.c 76-89) *)

RECURSIVE remove_from(_, _, _, _)
remove_from(M, block, curr, seen) ==
    IF curr = NULL THEN M
    ELSE IF curr \in seen THEN Fault(M, "hang")
    ELSE IF NextOf(M.mem, curr) = block
         THEN CopyNext(Acc(M, {curr + WordSize}), curr, block)
         ELSE remove_from(Acc(M, {curr + WordSize}), block,
                          NextOf(M.mem, curr), seen \cup {curr})

remove_free_block(M, block) ==
    IF M.head = block
    THEN [Acc(M, {block + WordSize}) EXCEPT !.head = NextOf(M.mem, block)]
    ELSE remove_from(M, block, M.head, {})

----------------------------------------------------------------------------
(* coalesce (alloc.c 97-131).  prev and next are both looked up (lines     *)
(* 102-103) before either merge.                                           *)

AddSize(M, block, other) ==
    SetSize(Acc(M, {block, other}), block,
            SizeOf(M.mem, block) + SizeOf(M.mem, other) + HeaderSize)

(* lines 106-117: the block the second merge works on is prev when the     *)
(* first merge happened                                                    *)
MergedInto(M, block, prev) ==
    IF prev # NULL /\ prev + SizeOf(M.mem, prev) + HeaderSize = block
    THEN prev ELSE block

CoalescePrev(M, block, prev) ==
    IF prev = NULL THEN M
    ELSE IF prev + SizeOf(M.mem, prev) + HeaderSize = block
    THEN IF NextOf(M.mem, prev) = block
         THEN CopyNext(AddSize(M, prev, block), prev, block)
         ELSE Acc(AddSize(M, prev, block), {prev + WordSize})
    ELSE Acc(M, {prev})

(* lines 120-128 *)
CoalesceNext(M, block, next) ==
    IF next = NULL THEN M
    ELSE IF block + SizeOf(M.mem, block) + HeaderSize = next
    THEN CopyNext(AddSize(M, block, next), block, next)
    ELSE Acc(M, {block})

CoalesceBoth(M, block, prev, next) ==
    [M   |-> CoalesceNext(CoalescePrev(M, block, prev),
                          MergedInto(M, block, prev), next),
     ret |-> MergedInto(M, block, prev)]

CoalesceAfterNext(n, block, prev) ==
    IF n.M.flt # "none" THEN [M |-> n.M, ret |-> NULL]
    ELSE CoalesceBoth(n.M, block, prev, n.ret)

CoalesceAfterPrev(p, block) ==
    IF p.M.flt # "none" THEN [M |-> p.M, ret |-> NULL]
    ELSE CoalesceAfterNext(find_next(p.M, block), block, p.ret)

coalesce(M, block) ==
    IF block = NULL THEN [M |-> M, ret |-> NULL]
    ELSE CoalesceAfterPrev(find_prev(M, block), block)

----------------------------------------------------------------------------
(* do_alloc (alloc.c 139-149).  sbrk either moves the break up by the      *)
(* requested amount and returns the old break, or refuses and returns the  *)
(* pointer -1, written SBRK_FAILED = -1: +, - and % on it agree with the   *)
(* code's arithmetic modulo 2^64.  The increment is an intptr_t: a size_t  *)
(* at or above 2^63 is a negative increment, which moves the break down.   *)
(* The system never moves the break below where the heap began.            *)

sbrk(M, increment, granted) ==
    IF granted /\ M.brk + increment >= M.lo
    THEN [M |-> [M EXCEPT !.brk = @ + increment], ret |-> M.brk]
    ELSE [M |-> M, ret |-> SBRK_FAILED]

AlignUp(ptr) == (ptr + ALIGNMENT - 1) - ((ptr + ALIGNMENT - 1) % ALIGNMENT)

\* Aligned without the correction of lines 141-143.
Aligned_uncorrected(ptr) == ptr

Aligned(ptr) == IF ptr % ALIGNMENT # 0 THEN AlignUp(ptr) ELSE ptr

AllocResult(r) ==
    IF Aligned(r.ret) = SBRK_FAILED THEN [M |-> r.M, ret |-> NULL]
    ELSE [M |-> r.M, ret |-> Aligned(r.ret)]

do_alloc(M, size, granted) == AllocResult(sbrk(M, size + HeaderSize, granted))

----------------------------------------------------------------------------
(* tumalloc (alloc.c 157-192).  ScanFreeList is the while loop of lines    *)
(* 164-183: early is TRUE when the loop left through the return NULL of    *)
(* line 168.  The loop has no other exit than curr = NULL, so after a fit  *)
(* it goes on with curr->next.  A pass that meets the same entry with the  *)
(* same memory and the same HEAD again repeats forever.                    *)

(* lines 172-179 *)
TakeBlock(M, curr, split_ptr, size) ==
    SetMagic(SetSize(remove_free_block(M, curr), split_ptr, size), split_ptr)

RECURSIVE ScanFreeList(_, _, _, _)

(* line 182 *)
ScanAdvance(M, size, curr, seen) ==
    ScanFreeList(Acc(M, {curr + WordSize}), size, NextOf(M.mem, curr), seen)

(* lines 166-181 *)
ScanAfterSplit(sp, size, curr, seen) ==
    IF sp.ret = NULL THEN [M |-> sp.M, early |-> TRUE]
    ELSE ScanAdvance(TakeBlock(sp.M, curr, sp.ret, size), size, curr, seen)

ScanFreeList(M, size, curr, seen) ==
    IF curr = NULL \/ M.flt # "none" THEN [M |-> M, early |-> FALSE]
    ELSE IF <<curr, M.mem, M.head>> \in seen
    THEN [M |-> Fault(M, "hang"), early |-> FALSE]
    ELSE IF ~ULess(SizeOf(M.mem, curr), size)
    THEN ScanAfterSplit(split(Acc(M, {curr}), curr, size + HeaderSize), size, curr,
                        seen \cup {<<curr, M.mem, M.head>>})
    ELSE ScanAdvance(Acc(M, {curr}), size, curr,
                     seen \cup {<<curr, M.mem, M.head>>})

(* lines 187-191 *)
NewBlock(a, size) ==
    [M |-> SetNext(SetSize(a.M, a.ret, size), a.ret, NULL),
     ret |-> a.ret + HeaderSize]

(* lines 185-191 *)
GrowAfterScan(sc, size, granted) ==
    IF sc.early \/ sc.M.flt # "none" THEN [M |-> sc.M, ret |-> NULL]
    ELSE NewBlock(do_alloc(sc.M, size + HeaderSize, granted), size)

tumalloc(M, size, granted) ==
    IF M.head = NULL
    THEN do_alloc(M, size + HeaderSize, granted)
    ELSE GrowAfterScan(ScanFreeList(M, size, M.head, {}), size, granted)

----------------------------------------------------------------------------
(* tufree (alloc.c 248-266) *)

(* lines 257-258 *)
Push(M, block) == [SetNext(M, block, M.head) EXCEPT !.head = block]

\* tufree without the sentinel test of line 255.
tufree_unchecked(M, ptr) ==
    IF ptr = NULL THEN M
    ELSE coalesce(Push(Acc(M, {ptr - HeaderSize}), ptr - HeaderSize),
                  ptr - HeaderSize).M

tufree(M, ptr) ==
    IF ptr = NULL THEN M
    ELSE IF MagicOf(M.mem, ptr - HeaderSize) = MAGIC
    THEN coalesce(Push(Acc(M, {ptr - HeaderSize}), ptr - HeaderSize),
                  ptr - HeaderSize).M
    ELSE Fault(Acc(M, {ptr - HeaderSize}), "abort")

----------------------------------------------------------------------------
(* memset and memcpy over n bytes.  A word never written reads 0, so       *)
(* zeroing leaves the set of written words as it is.  Every word of the    *)
(* model is below 2^31: a last word copied in part is the source word.     *)
(* A length at or above 2^63 (n < 0) runs past the end of the heap.        *)

InRange(x, a, n) == a <= x /\ x < a + n

AccRange(M, a, n) ==
    IF n = 0 THEN M
    ELSE [M EXCEPT !.oob = @ \/ n < 0 \/ ~(M.lo <= a /\ a + n <= M.brk),
                   !.flt = IF @ = "none" /\ a = NULL THEN "segv" ELSE @]

memset0(M, ptr, n) ==
    [AccRange(M, ptr, n) EXCEPT
        !.mem = [x \in DOMAIN M.mem |-> IF InRange(x, ptr, n) THEN 0 ELSE M.mem[x]]]

memcpy(M, dst, src, n) ==
    [AccRange(AccRange(M, src, n), dst, n) EXCEPT
        !.mem = [x \in (DOMAIN M.mem) \cup
                       {a - src + dst : a \in {y \in DOMAIN M.mem : InRange(y, src, n)}}
                   |-> IF InRange(x, dst, n) THEN Rd(M.mem, x - dst + src)
                       ELSE M.mem[x]]]

(* The product num * size of line 202, on size_t operands given by their   *)
(* eight bytes, least significant first.  Product is the sixteen bytes of  *)
(* the mathematical product; the size_t result keeps the low eight.        *)

ByteBase == ALIGNMENT * ALIGNMENT

RECURSIVE ByteOf(_, _)
ByteOf(n, i) == IF i = 0 THEN n % ByteBase ELSE ByteOf(n \div ByteBase, i - 1)

\* The size_t that holds the natural number n.
SizeT(n) == [i \in 0..(WordSize - 1) |-> ByteOf(n, i)]

\* The sum of the byte products a[i] * b[k - i] over i >= from.
RECURSIVE ColumnFrom(_, _, _, _)
ColumnFrom(a, b, k, from) ==
    IF from > k THEN 0
    ELSE (IF from < WordSize /\ k - from < WordSize THEN a[from] * b[k - from] ELSE 0)
         + ColumnFrom(a, b, k, from + 1)

\* Column k with the carry of the columns below it.
RECURSIVE Carried(_, _, _)
Carried(a, b, k) ==
    ColumnFrom(a, b, k, 0) + (IF k = 0 THEN 0 ELSE Carried(a, b, k - 1) \div ByteBase)

Product(a, b) == [k \in 0..(2 * WordSize - 1) |-> Carried(a, b, k) % ByteBase]

\* The product does not fit a size_t.
Overflows(a, b) == \E k \in WordSize..(2 * WordSize - 1) : Product(a, b)[k] # 0

\* The integer a size_t below 2^31 holds.
ValueOf(d) == d[0] + ByteBase * (d[1] + ByteBase * (d[2] + ByteBase * d[3]))

\* line 202
total_size(num, size) ==
    ValueOf([k \in 0..(WordSize - 1) |-> Product(num, size)[k]])

(* tucalloc (alloc.c 201-210) *)

ZeroResult(r, total) ==
    IF r.ret # NULL /\ r.M.flt = "none"
    THEN [M |-> memset0(r.M, r.ret, total), ret |-> r.ret]
    ELSE r

tucalloc(M, num, size, granted) ==
    ZeroResult(tumalloc(M, total_size(num, size), granted), total_size(num, size))

(* turealloc (alloc.c 220-241) *)

(* lines 236-237 *)
CopyAndFree(M, new_ptr, ptr) ==
    IF M.flt # "none" THEN M
    ELSE tufree(memcpy(Acc(M, {ptr - HeaderSize}), new_ptr, ptr,
                       SizeOf(M.mem, ptr - HeaderSize)), ptr)

\* Lines 234-240 without the test of line 234.
Moved_unguarded(r, ptr) ==
    [M |-> CopyAndFree(r.M, r.ret, ptr), ret |-> r.ret]

(* lines 234-240 *)
Moved(r, ptr) ==
    IF r.ret # NULL
    THEN [M |-> CopyAndFree(r.M, r.ret, ptr), ret |-> r.ret]
    ELSE r

turealloc(M, ptr, new_size, granted) ==
    IF ptr = NULL THEN tumalloc(M, new_size, granted)
    ELSE IF new_size = SizeOf(M.mem, ptr - HeaderSize)
    THEN [M |-> Acc(M, {ptr - HeaderSize}), ret |-> ptr]
    ELSE IF ULess(new_size, SizeOf(M.mem, ptr - HeaderSize))
    THEN [M |-> split(Acc(M, {ptr - HeaderSize}), ptr - HeaderSize, new_size).M,
          ret |-> ptr]
    ELSE Moved(tumalloc(Acc(M, {ptr - HeaderSize}), new_size, granted), ptr)

----------------------------------------------------------------------------
(* The program and its caller.                                             *)
(*   mem, HEAD, brk  the allocator's memory, list head and program break;  *)
(*   brk0            the break before the first call;                      *)
(*   status          "run", or how the process ended;                      *)
(*   live            the pointers the caller holds, each with the size it  *)
(*                   asked for and the call that returned it;              *)
(*   freed           the pointers it has released;                         *)
(*   last            the last call: its name, its arguments (for a release *)
(*                   size is the size the caller had asked for; for        *)
(*                   tucalloc size is the size_t product and args the two  *)
(*                   operands), whether the system would grant heap        *)
(*                   growth, and the result;                               *)
(*   nops            the number of calls made.                             *)
(* The header below the first pointer do_alloc hands out lies under the    *)
(* initial break, in memory the allocator never wrote: Init chooses its    *)
(* size word freely.  Memory that sbrk grants reads 0 until written.       *)

\* The (num, size) of tucalloc: 3 elements of 8 bytes, and 2^61 + 1 elements
\* of 8 bytes, whose product is 2^64 + 8.
WideCount == [SizeT(1) EXCEPT ![WordSize - 1] = 2 * ALIGNMENT]

CallocArgs == {<<SizeT(3), SizeT(8)>>, <<WideCount, SizeT(8)>>}

NoCall ==
    [op |-> "none", ptr |-> NULL, size |-> 0, args |-> <<>>, granted |-> FALSE,
     ret |-> NULL]

Init ==
    /\ brk0 \in Breaks
    /\ brk = brk0
    /\ HEAD = NULL
    /\ \E g \in Garbage : mem = [a \in {AlignUp(brk0) - HeaderSize} |-> g]
    /\ status = "run"
    /\ live = [p \in {} |-> 0]
    /\ freed = {}
    /\ last = NoCall
    /\ nops = 0

Cur == Machine(mem, HEAD, brk, brk0)

Hold(l, p, s, op) ==
    [x \in (DOMAIN l) \cup {p} |-> IF x = p THEN [size |-> s, by |-> op] ELSE l[x]]

Drop(l, p) == [x \in (DOMAIN l) \ {p} |-> l[x]]

(* The end of a call.  A call that stopped leaves the state it stopped in. *)
(* A call that touched memory outside the heap either faulted there (crash, *)
(* the process ends with "segv") or found the memory mapped and went on.   *)
Finish(M, crash, call, newlive, newfreed) ==
    /\ crash => M.oob
    /\ nops' = nops + 1
    /\ last' = call
    /\ brk0' = brk0
    /\ IF crash
       THEN /\ status' = "segv"
            /\ UNCHANGED <<mem, HEAD, brk, live, freed>>
       ELSE /\ status' = IF M.flt = "none" THEN "run" ELSE M.flt
            /\ mem' = M.mem
            /\ HEAD' = M.head
            /\ brk' = M.brk
            /\ live' = IF M.flt = "none" THEN newlive ELSE live
            /\ freed' = IF M.flt = "none" THEN newfreed ELSE freed

Ready == status = "run" /\ nops < MaxOps

(* The caller's books after a call that returned r: it holds the pointer   *)
(* it was given, and no longer holds the one it passed when the allocator  *)
(* moved or released it.                                                   *)
Returned(r, op, ptr, size, args, granted, crash) ==
    Finish(r.M, crash,
           [op |-> op, ptr |-> ptr, size |-> size, args |-> args, granted |-> granted,
            ret |-> r.ret],
           IF r.ret # NULL THEN Hold(Drop(live, ptr), r.ret, size, op) ELSE live,
           IF r.ret # NULL /\ r.ret # ptr /\ ptr # NULL
           THEN (freed \cup {ptr}) \ {r.ret} ELSE freed \ {r.ret})

Malloc(size, granted, crash) ==
    /\ Ready
    /\ Returned(tumalloc(Cur, size, granted), "malloc", NULL, size, <<>>, granted,
                crash)

Calloc(num, size, granted, crash) ==
    /\ Ready
    /\ Returned(tucalloc(Cur, num, size, granted), "calloc", NULL,
                total_size(num, size), <<num, size>>, granted, crash)

Realloc(ptr, new_size, granted, crash) ==
    /\ Ready
    /\ Returned(turealloc(Cur, ptr, new_size, granted), "realloc", ptr, new_size,
                <<>>, granted, crash)

Free(ptr, crash) ==
    /\ Ready
    /\ Finish(tufree(Cur, ptr), crash,
              [op |-> "free", ptr |-> ptr,
               size |-> IF ptr \in DOMAIN live THEN live[ptr].size ELSE 0,
               args |-> <<>>, granted |-> FALSE, ret |-> NULL],
              Drop(live, ptr),
              IF ptr # NULL THEN freed \cup {ptr} ELSE freed)

Next ==
    \/ \E size \in Sizes, granted, crash \in BOOLEAN : Malloc(size, granted, crash)
    \/ \E a \in CallocArgs, granted, crash \in BOOLEAN :
           Calloc(a[1], a[2], granted, crash)
    \/ \E ptr \in (DOMAIN live) \cup {NULL}, new_size \in ReallocSizes,
          granted, crash \in BOOLEAN : Realloc(ptr, new_size, granted, crash)
    \/ \E ptr \in (DOMAIN live) \cup freed \cup {NULL}, crash \in BOOLEAN :
           Free(ptr, crash)

Spec == Init /\ [][Next]_vars

----------------------------------------------------------------------------
(* Blocks laid out back to back.  coalesce merges x and y only when        *)
(* x + x->size + sizeof(free_block) = y, and tufree takes a block only     *)
(* when the low 32 bits of its size word are the sentinel, so blocks that  *)
(* can be released and then merged lie 0x01234567 + 16 bytes apart.  The   *)
(* blocks tumalloc hands out never do (do_alloc asks sbrk for 16 bytes     *)
(* more than the block, and stores no sentinel); here the caller holds a   *)
(* heap of two to MaxBlocks such blocks and releases them in any order,    *)
(* with small allocations in between.                                      *)

BlockAt(i) == HeapBase + i * (MAGIC + HeaderSize)

InitAdjacent ==
    \E n \in 2..MaxBlocks :
        /\ brk0 = HeapBase
        /\ brk = BlockAt(n)
        /\ HEAD = NULL
        /\ mem = [a \in {BlockAt(i) : i \in 0..(n - 1)} |-> MAGIC]
        /\ status = "run"
        /\ live = [q \in {BlockAt(i) + HeaderSize : i \in 0..(n - 1)}
                     |-> [size |-> MAGIC, by |-> "caller"]]
        /\ freed = {}
        /\ last = NoCall
        /\ nops = 0

NextAdjacent ==
    \/ \E ptr \in DOMAIN live, crash \in BOOLEAN : Free(ptr, crash)
    \/ \E size \in SmallSizes, granted, crash \in BOOLEAN : Malloc(size, granted, crash)

SpecAdjacent == InitAdjacent /\ [][NextAdjacent]_vars

----------------------------------------------------------------------------
(* Requests of every size a size_t can hold.  The caller asks for ordinary  *)
(* sizes and for sizes near 2^64, through each of the four entry points.    *)

NextWrap ==
    \/ \E size \in WrapSizes, granted, crash \in BOOLEAN : Malloc(size, granted, crash)
    \/ \E a \in CallocArgs, granted, crash \in BOOLEAN :
           Calloc(a[1], a[2], granted, crash)
    \/ \E ptr \in DOMAIN live, new_size \in WrapReallocSizes,
          granted, crash \in BOOLEAN : Realloc(ptr, new_size, granted, crash)
    \/ \E ptr \in (DOMAIN live) \cup {NULL}, crash \in BOOLEAN : Free(ptr, crash)

SpecWrap == Init /\ [][NextWrap]_vars

----------------------------------------------------------------------------
(* Vocabulary of the properties *)

\* The entries that following next from curr reaches.
RECURSIVE Reach(_, _, _)
Reach(m, curr, seen) ==
    IF curr = NULL \/ curr \in seen THEN seen
    ELSE Reach(m, NextOf(m, curr), seen \cup {curr})

FreeEntries == Reach(mem, HEAD, {})

\* Following next from curr comes back to an entry already passed.
RECURSIVE Cyclic(_, _, _)
Cyclic(m, curr, seen) ==
    IF curr = NULL THEN FALSE
    ELSE IF curr \in seen THEN TRUE
    ELSE Cyclic(m, NextOf(m, curr), seen \cup {curr})

\* The first entry in list order, from curr on, whose size suffices for size.
RECURSIVE FirstFit(_, _, _, _)
FirstFit(m, curr, size, seen) ==
    IF curr = NULL \/ curr \in seen THEN NULL
    ELSE IF size <= SizeOf(m, curr) THEN curr
    ELSE FirstFit(m, NextOf(m, curr), size, seen \cup {curr})

\* The byte ranges [a, a + n) and [b, b + k) share no byte.
Disjoint(a, n, b, k) == n = 0 \/ k = 0 \/ a + n <= b \/ b + k <= a

Allocating == {"malloc", "calloc", "realloc"}

\* The pointers the caller holds that the call op returned.
LiveBy(op) == {p \in DOMAIN live : live[p].by = op}

\* The words of [a, a + n) hold in m2 what they held in m1.
SameBytes(m1, m2, a, n) ==
    \A x \in (DOMAIN m1) \cup (DOMAIN m2) : InRange(x, a, n) => Rd(m2, x) = Rd(m1, x)

\* Some entry of the free list from head h holds the bytes [a, a + n).
OnFreeList(m, h, a, n) ==
    \E e \in Reach(m, h, {}) : e <= a /\ a + n <= e + HeaderSize + SizeOf(m, e)

\* The headers the caller and the free list lead to.
Headers == FreeEntries \cup {p - HeaderSize : p \in DOMAIN live}

\* What split(block, size) owes on memory m: r is its result.
SplitContract(m, block, size, r) ==
    IF ULess(SizeOf(m, block), size + HeaderSize)
    THEN /\ r.ret = NULL
         /\ r.M.mem = m
         /\ r.M.head = HEAD
    ELSE /\ r.ret = block
         /\ SizeOf(r.M.mem, block) = size
         /\ NextOf(r.M.mem, block + size + HeaderSize) = NextOf(m, block)
         /\ SizeOf(r.M.mem, block + size + HeaderSize)
                = SizeOf(m, block) - size - HeaderSize
         /\ SizeOf(r.M.mem, block) + HeaderSize
                + SizeOf(r.M.mem, block + size + HeaderSize) = SizeOf(m, block)

\* The free list from head h: its entries with their size and next words.
ListOf(m, h) == {<<e, SizeOf(m, e), NextOf(m, e)>> : e \in Reach(m, h, {})}

----------------------------------------------------------------------------
\* C1: every non-null pointer tumalloc returns, on the empty-list path and on
\* the non-empty path, has the sentinel 0x01234567 in the header below it, so
\* that releasing it never takes the corruption-abort branch.
C1_ReturnedHeaderCarriesSentinel ==
    (status = "run" /\ last.op = "malloc" /\ last.ret # NULL)
        => MagicOf(mem, last.ret - HeaderSize) = MAGIC

\* C2: when the free list holds a block large enough for the request,
\* tumalloc returns the payload of the first such block in list order and does
\* not call do_alloc (the break stays where it was).
C2_FirstFitIsReturned ==
    [][(Ready /\ last'.op = "malloc" /\ status' = "run" /\ last'.ret # NULL
          /\ FirstFit(mem, HEAD, last'.size, {}) # NULL)
        => (/\ last'.ret = FirstFit(mem, HEAD, last'.size, {}) + HeaderSize
            /\ brk' = brk)]_vars

\* C3: no-growth reuse: after p = tumalloc(s) and tufree(p), a following
\* tumalloc(s2) with s2 <= s is served inside the freed block and leaves the
\* break unchanged.
C3_NoGrowthReuse ==
    [][(Ready /\ last.op = "free" /\ last.ptr # NULL /\ last.size > 0
          /\ last'.op = "malloc" /\ last'.size <= last.size /\ status' = "run")
        => (/\ brk' = brk
            /\ last.ptr <= last'.ret
            /\ last'.ret + last'.size <= last.ptr + last.size)]_vars

\* C4: tufree of a non-null pointer whose header does not hold the sentinel
\* ends the process, with HEAD and every word of memory as they were; it never
\* returns.
C4_CorruptReleaseAborts ==
    [][(Ready /\ last'.op = "free" /\ last'.ptr # NULL
          /\ MagicOf(mem, last'.ptr - HeaderSize) # MAGIC)
        => (/\ status' \in {"abort", "segv"}
            /\ HEAD' = HEAD
            /\ mem' = mem)]_vars

C4_Witness ==
    /\ status = "abort"
    /\ last.op = "free"
    /\ last.ptr \in DOMAIN live
    /\ MagicOf(mem, last.ptr - HeaderSize) # MAGIC

\* C5: a second tufree(p) right after a successful tufree(p) takes the
\* corruption-abort branch and does not push the block a second time.
C5_DoubleReleaseAborts ==
    [][(Ready /\ last.op = "free" /\ last.ptr # NULL
          /\ last'.op = "free" /\ last'.ptr = last.ptr)
        => (/\ status' \in {"abort", "segv"}
            /\ HEAD' = HEAD
            /\ mem' = mem)]_vars

C8_LivePayloadsDisjoint ==
    status = "run" =>
      \A p \in LiveBy("malloc") :
        /\ brk0 <= p /\ p + live[p].size <= brk
        /\ \A q \in LiveBy("malloc") \ {p} :
               Disjoint(p, live[p].size, q, live[q].size)
        /\ \A q \in LiveBy("malloc") :
               Disjoint(p, live[p].size, q - HeaderSize, HeaderSize)
        /\ \A e \in FreeEntries :
               Disjoint(p, live[p].size, e, HeaderSize + SizeOf(mem, e))

\* C9: every non-null pointer returned by tumalloc, tucalloc or turealloc is a
\* multiple of 16, whatever the initial break and the request sizes.
C9_ReturnedPointersAligned ==
    /\ (last.op \in Allocating /\ status = "run" /\ last.ret # NULL)
           => last.ret % ALIGNMENT = 0
    /\ \A p \in DOMAIN live : p % ALIGNMENT = 0

C9_Witness ==
    /\ brk0 % ALIGNMENT # 0
    /\ status = "run"
    /\ last.op \in Allocating
    /\ last.ret # NULL
    /\ Cardinality(DOMAIN live) >= 2

\* C10: tumalloc returns null only when the system refuses heap growth; a
\* free block that fits the request but is too small to split does not make it
\* return null.
C10_NullOnlyWhenGrowthRefused ==
    (status = "run" /\ last.op = "malloc" /\ last.ret = NULL) => ~last.granted

\* C11: when sbrk refuses (returns the pointer -1) do_alloc returns null, and
\* tumalloc, with the free list empty or not, returns null to its caller, stores
\* nothing through the null result and leaves the free list as it was.
C11_RefusedGrowthReturnsNull ==
    [][(Ready /\ last'.op = "malloc" /\ ~last'.granted)
        => (/\ do_alloc(Cur, last'.size + HeaderSize, FALSE).ret = NULL
            /\ status' = "run"
            /\ last'.ret = NULL
            /\ HEAD' = HEAD
            /\ ListOf(mem', HEAD') = ListOf(mem, HEAD))]_vars

C13_ShrinkFreesResidual ==
    [][(/\ Ready
        /\ last'.op = "realloc" /\ last'.ptr # NULL
        /\ InHeap(last'.ptr - HeaderSize, brk0, brk)
        /\ ULess(last'.size, SizeOf(mem, last'.ptr - HeaderSize)))
       => (/\ status' = "run"
           /\ last'.ret = last'.ptr
           /\ SameBytes(mem, mem', last'.ptr, last'.size)
           /\ ~ULess(SizeOf(mem, last'.ptr - HeaderSize), last'.size + HeaderSize)
                 => last'.ptr + last'.size \in Reach(mem', HEAD', {}))]_vars

\* C14: when turealloc is called with a non-null pointer p of recorded size n
\* and a new_size above n, and the allocation succeeds, it returns a pointer q
\* other than p, the first n bytes at q are the n bytes that were at p, and the
\* old block has been released: it is on the free list, or inside an entry of
\* it, and the caller no longer holds it.
C14_GrowCopiesAndReleases ==
    [][(/\ Ready
        /\ last'.op = "realloc" /\ last'.ptr # NULL
        /\ InHeap(last'.ptr - HeaderSize, brk0, brk)
        /\ ULess(SizeOf(mem, last'.ptr - HeaderSize), last'.size)
        /\ tumalloc(Cur, last'.size, last'.granted).ret # NULL
        /\ tumalloc(Cur, last'.size, last'.granted).M.flt = "none")
       => (/\ status' = "run"
           /\ last'.ret \notin {NULL, last'.ptr}
           /\ \A x \in DOMAIN mem :
                  InRange(x, last'.ptr, SizeOf(mem, last'.ptr - HeaderSize))
                      => Rd(mem', x - last'.ptr + last'.ret) = Rd(mem, x)
           /\ last'.ptr \notin DOMAIN live'
           /\ OnFreeList(mem', HEAD', last'.ptr - HeaderSize,
                         HeaderSize + SizeOf(mem, last'.ptr - HeaderSize)))]_vars

\* C15: for every count and size, those whose product does not fit a size_t
\* included, a non-null result of tucalloc(count, size) is a region of
\* count * size bytes, never a shorter one, and every byte of it is zero.
C15_ZeroedRegionOfFullLength ==
    (status = "run" /\ last.op = "calloc" /\ last.ret # NULL)
        => (/\ ~Overflows(last.args[1], last.args[2])
            /\ \A x \in DOMAIN mem : InRange(x, last.ret, last.size) => mem[x] = 0)

C19_BreakNeverLowered ==
    [][brk' >= brk]_vars

\* C20: in every reachable state every header that user code can reach (the
\* header below a pointer the caller holds, also after turealloc shrank the
\* block) or that the free list reaches (residuals of split included) has a
\* size above 0.
C20_HeaderSizesPositive ==
    status = "run" =>
        \A block \in Headers :
            InHeap(block, brk0, brk) => SizeOf(mem, block) > 0

====
